---- MODULE Spec2Model ----
(***************************************************************************)
(* HeroCanvas (src/script.js): the scroll-driven frame-sequence scrubber.  *)
(* Spec is script.js, which eases currentFrame towards targetFrame on      *)
(* every animation frame; ThrottledSpec is the variant of                  *)
(* src/unnamed/part_000, which sets currentFrame in the scroll handler and *)
(* draws on an animation frame only when needsRender is set.               *)
(*                                                                         *)
(* The page is single threaded: every action below is one callback run to  *)
(* completion (an image load/error handler, the then-callback of           *)
(* Promise.all, the resize handler, a scroll event, one animation frame).  *)
(*                                                                         *)
(* Numbers.  currentFrame and targetFrame are JavaScript Numbers.  A       *)
(* Number is a record [k, v]: k = "num" with v the value in units of       *)
(* 1/Scale frame, k = "nan" for NaN, k = "pinf"/"ninf" for the infinities. *)
(* Every arithmetic result is rounded to the nearest unit, ties to even,   *)
(* as IEEE-754 rounds to the nearest representable value.                  *)
(***************************************************************************)
EXTENDS Integers, Sequences, FiniteSets, TLC

\* ---------------------------------------------------------------- bounds
\* number of frames of the sequence (TOTAL_FRAMES is 248 in the page)
TotalFrames == 9
\* the frames below this index may each be missing on the host
MissingUpTo == 2
\* window.scrollY ranges over 0..MaxScrollY
MaxScrollY == 2
\* scroll events followed between two animation frames (throttled variant)
MaxCoalesced == 2

\* ------------------------------------------------------ program constants
\* this.ease = 0.06 = EaseNum / EaseDen
EaseNum == 3
EaseDen == 50
\* const fadeThreshold = 8
fadeThreshold == 8

\* units per frame of the fixed-point grid
Scale == EaseDen

Frames == 0 .. (TotalFrames - 1)

\* ------------------------------------------------------------ environment
\* scrollHeight - innerHeight of the document: negative, not scrollable,
\* scrollable over 2 px
MaxScrollTops == {-1, 0, 2}
ScrollTops == 0 .. MaxScrollY
\* window.innerWidth, window.innerHeight, 2 * window.devicePixelRatio
\* (dpr2 = 0 stands for an undefined or zero devicePixelRatio)
Viewports ==
  { [w |-> 5, h |-> 2, dpr2 |-> 3],
    [w |-> 2, h |-> 4, dpr2 |-> 0] }
\* natural size of the decoded frames
FrameSize == [w |-> 2, h |-> 1]
\* the sets of frames whose fetch ends in an error: any of the first
\* MissingUpTo frames, or the whole sequence
MissingSets ==
  { F \in SUBSET Frames : F = Frames \/ \A i \in F : i < MissingUpTo }

VARIABLES
  images,        \* this.images: "empty" | "ok" (decoded) | "broken" (width 0)
  loaded,        \* this.loaded
  currentFrame,  \* this.currentFrame (Number)
  targetFrame,   \* this.targetFrame (Number)
  resolved,      \* the frames whose promise has been resolved
  allState,      \* Promise.all: "pending" | "fulfilled" (then queued) | "done"
  thenRuns,      \* how often the then-callback of init has run
  initSteps,     \* the calls of the then-callback, in program order
  scrollBound,   \* the scroll listener is registered
  rafPending,    \* number of requested animation frames not yet run
  canvas,        \* backing size, CSS size and transform of the canvas
  pic,           \* what the canvas shows: frame index (-1 blank) and rectangle
  opacity,       \* canvas.style.opacity in units of 1/fadeThreshold (-1 unset)
  heroVisible,   \* .hero carries the class 'visible'
  missing,       \* environment: the frames the host cannot deliver
  needsRender,   \* this.needsRender of the throttled variant
  scrollsSince   \* history: scroll events handled since the last tick

vars == << images, loaded, currentFrame, targetFrame, resolved, allState,
           thenRuns, initSteps, scrollBound, rafPending, canvas, pic, opacity,
           heroVisible, missing, needsRender, scrollsSince >>

\* ---------------------------------------------------------------- Numbers
Num(v) == [k |-> "num", v |-> v]
NaN == [k |-> "nan", v |-> 0]
PInf == [k |-> "pinf", v |-> 0]
NInf == [k |-> "ninf", v |-> 0]
IsNum(x) == x.k = "num"

Abs(n) == IF n < 0 THEN -n ELSE n
Sign(n) == IF n < 0 THEN -1 ELSE IF n > 0 THEN 1 ELSE 0

\* n / d (d > 0) rounded to the nearest integer, ties to even
RoundDiv(n, d) ==
  LET q == n \div d
      r == n % d
  IN  IF 2 * r < d THEN q
      ELSE IF 2 * r > d THEN q + 1
      ELSE IF q % 2 = 0 THEN q ELSE q + 1

\* a / b of two integers a, b (line 60: scrollTop / maxScrollTop)
JSDiv(a, b) ==
  IF b = 0
    THEN IF a = 0 THEN NaN ELSE IF a > 0 THEN PInf ELSE NInf
    ELSE Num(Sign(b) * RoundDiv(Sign(b) * a * Scale, Abs(b)))

\* Math.min(c, x) and Math.max(c, x) for a finite c given in units
JSMin(c, x) ==
  CASE x.k = "nan" -> NaN
    [] x.k = "pinf" -> Num(c)
    [] x.k = "ninf" -> NInf
    [] OTHER -> Num(IF x.v < c THEN x.v ELSE c)
JSMax(c, x) ==
  CASE x.k = "nan" -> NaN
    [] x.k = "pinf" -> PInf
    [] x.k = "ninf" -> Num(c)
    [] OTHER -> Num(IF x.v > c THEN x.v ELSE c)

\* x * n for a positive integer n
JSTimes(x, n) == IF IsNum(x) THEN Num(x.v * n) ELSE x

\* Math.floor(x) as a frame index; NaN indexes no slot: -1
FloorIndex(x) == IF IsNum(x) THEN x.v \div Scale ELSE -1

\* x >= n frames; false whenever x is NaN
JSGeq(x, n) == IsNum(x) /\ x.v >= n * Scale

\* ----------------------------------------------------------------- canvas
Blank == [index |-> -1, x |-> 0, y |-> 0, w |-> 0, h |-> 0, den |-> 1]
OpacityUnset == -1
OpacityOne == fadeThreshold

\* Math.round(n / 2) for n >= 0: halves round up
RoundHalf(n) == (n + 1) \div 2

\* lines 33-38: the canvas after resize() in viewport vp.  Assigning
\* canvas.width / canvas.height resets the bitmap to blank.
SizedCanvas(vp) ==
  LET dpr2 == IF vp.dpr2 = 0 THEN 2 ELSE vp.dpr2
  IN  [ width |-> RoundHalf(vp.w * dpr2),
        height |-> RoundHalf(vp.h * dpr2),
        cssW |-> vp.w,
        cssH |-> vp.h,
        scale2 |-> dpr2 ]

\* the two branches exchanged: the image fitted inside the canvas
PlacementContain(cssW, cssH, iw, ih) ==
  IF cssW * ih > iw * cssH
    THEN [ x |-> cssW * ih - cssH * iw,
           y |-> 0,
           w |-> 2 * cssH * iw,
           h |-> 2 * ih * cssH,
           den |-> 2 * ih ]
    ELSE [ x |-> 0,
           y |-> cssH * iw - cssW * ih,
           w |-> 2 * iw * cssW,
           h |-> 2 * cssW * ih,
           den |-> 2 * iw ]

\* lines 88-101: the rectangle an image of iw x ih is drawn into on a canvas
\* of cssW x cssH CSS pixels; x, y, w, h are numerators over den
Placement(cssW, cssH, iw, ih) ==
  IF cssW * ih > iw * cssH
    THEN [ x |-> 0,
           y |-> cssH * iw - cssW * ih,
           w |-> 2 * iw * cssW,
           h |-> 2 * cssW * ih,
           den |-> 2 * iw ]
    ELSE [ x |-> cssW * ih - cssH * iw,
           y |-> 0,
           w |-> 2 * cssH * iw,
           h |-> 2 * ih * cssH,
           den |-> 2 * ih ]

\* the ramp counted from the last index instead of from the frame count
FadeAlphaFromLast(index) ==
  IF TotalFrames - 1 - index <= fadeThreshold
    THEN (IF TotalFrames - 1 - index > 0 THEN TotalFrames - 1 - index ELSE 0)
    ELSE OpacityOne

\* lines 104-110: the opacity drawFrame(index) sets, in units of 1/fadeThreshold
FadeAlpha(index) ==
  IF TotalFrames - index <= fadeThreshold
    THEN (IF TotalFrames - index > 0 THEN TotalFrames - index ELSE 0)
    ELSE OpacityOne

\* line 79-80: the slot holds an image object, and its width
HasImage(index) == index \in Frames /\ images[index] # "empty"
ImageWidth(index) == IF images[index] = "ok" THEN FrameSize.w ELSE 0

\* drawFrame without the test of img.width
DrawFrameNoWidthTest(index, cv, p, o) ==
  IF ~HasImage(index)
    THEN [pic |-> p, opacity |-> o, ops |-> << >>]
    ELSE LET r == Placement(cv.cssW, cv.cssH, FrameSize.w, FrameSize.h)
         IN  [ pic |-> [index |-> index, x |-> r.x, y |-> r.y,
                        w |-> r.w, h |-> r.h, den |-> r.den],
               opacity |-> FadeAlpha(index),
               ops |-> << "clearRect", "save", "drawImage", "restore" >> ]

\* a drawFrame that sets the opacity before it tests the image's width
DrawFrameFadesFirst(index, cv, p, o) ==
  IF ~HasImage(index)
    THEN [pic |-> p, opacity |-> o, ops |-> << >>]
    ELSE IF ImageWidth(index) = 0
      THEN [pic |-> p, opacity |-> FadeAlpha(index), ops |-> << >>]
      ELSE LET r == Placement(cv.cssW, cv.cssH, FrameSize.w, FrameSize.h)
           IN  [ pic |-> [index |-> index, x |-> r.x, y |-> r.y,
                          w |-> r.w, h |-> r.h, den |-> r.den],
                 opacity |-> FadeAlpha(index),
                 ops |-> << "clearRect", "save", "drawImage", "restore" >> ]

\* lines 78-115: drawFrame(index) on canvas cv showing p with opacity o;
\* the result is the picture, the opacity and the commands issued
DrawFrame(index, cv, p, o) ==
  IF ~HasImage(index) \/ ImageWidth(index) = 0
    THEN [pic |-> p, opacity |-> o, ops |-> << >>]
    ELSE LET r == Placement(cv.cssW, cv.cssH, FrameSize.w, FrameSize.h)
         IN  [ pic |-> [index |-> index, x |-> r.x, y |-> r.y,
                        w |-> r.w, h |-> r.h, den |-> r.den],
               opacity |-> FadeAlpha(index),
               ops |-> << "clearRect", "save", "drawImage", "restore" >> ]

\* ------------------------------------------------------------------- Init
\* the state when the constructor returns: listener for resize registered,
\* resize() run once, all TotalFrames fetches issued, nothing resolved
Init ==
  /\ images = [i \in Frames |-> "empty"]
  /\ loaded = 0
  /\ currentFrame = Num(0)
  /\ targetFrame = Num(0)
  /\ resolved = {}
  /\ allState = "pending"
  /\ thenRuns = 0
  /\ initSteps = << >>
  /\ scrollBound = FALSE
  /\ rafPending = 0
  /\ \E vp \in Viewports : canvas = SizedCanvas(vp)
  /\ pic = Blank
  /\ opacity = OpacityUnset
  /\ heroVisible = FALSE
  /\ missing \in MissingSets
  /\ needsRender = FALSE
  /\ scrollsSince = 0

\* ---------------------------------------------------------------- preload
\* a race instead of all: fulfilled by the first resolved promise
PromiseAny(res) == IF res # {} THEN "fulfilled" ELSE "pending"

\* line 53: Promise.all is fulfilled when every promise of the list is
PromiseAll(res) == IF res = Frames THEN "fulfilled" ELSE "pending"

\* an onload that stores the image in the next free slot, in arrival order
OnLoadByArrival(i) ==
  /\ i \notin resolved
  /\ i \notin missing
  /\ images' = [images EXCEPT ![loaded] = "ok"]
  /\ loaded' = loaded + 1
  /\ resolved' = resolved \cup {i}
  /\ allState' = PromiseAll(resolved')
  /\ UNCHANGED << currentFrame, targetFrame, thenRuns, initSteps, scrollBound,
                  rafPending, canvas, pic, opacity, heroVisible, missing,
                  needsRender, scrollsSince >>

\* line 48: img.onload of frame i
OnLoad(i) ==
  /\ i \notin resolved
  /\ i \notin missing
  /\ images' = [images EXCEPT ![i] = "ok"]
  /\ loaded' = loaded + 1
  /\ resolved' = resolved \cup {i}
  /\ allState' = PromiseAll(resolved')
  /\ UNCHANGED << currentFrame, targetFrame, thenRuns, initSteps, scrollBound,
                  rafPending, canvas, pic, opacity, heroVisible, missing,
                  needsRender, scrollsSince >>

\* an error handler that stores the image and forgets resolve()
OnErrorNoResolve(i) ==
  /\ i \notin resolved
  /\ i \in missing
  /\ images' = [images EXCEPT ![i] = "broken"]
  /\ UNCHANGED << loaded, resolved, allState, currentFrame, targetFrame,
                  thenRuns, initSteps, scrollBound, rafPending, canvas, pic,
                  opacity, heroVisible, missing, needsRender, scrollsSince >>

\* an error handler that replaces the slot of the frame before it as well
OnErrorOverwrites(i) ==
  /\ i \notin resolved
  /\ i \in missing
  /\ images' = [j \in Frames |->
                  IF j = i \/ j = i - 1 THEN "broken" ELSE images[j]]
  /\ resolved' = resolved \cup {i}
  /\ allState' = PromiseAll(resolved')
  /\ UNCHANGED << loaded, currentFrame, targetFrame, thenRuns, initSteps,
                  scrollBound, rafPending, canvas, pic, opacity, heroVisible,
                  missing, needsRender, scrollsSince >>

\* line 49: img.onerror of frame i
OnError(i) ==
  /\ i \notin resolved
  /\ i \in missing
  /\ images' = [images EXCEPT ![i] = "broken"]
  /\ resolved' = resolved \cup {i}
  /\ allState' = PromiseAll(resolved')
  /\ UNCHANGED << loaded, currentFrame, targetFrame, thenRuns, initSteps,
                  scrollBound, rafPending, canvas, pic, opacity, heroVisible,
                  missing, needsRender, scrollsSince >>

\* lines 25-29 with 64 and 75: the then-callback of init, a microtask that
\* runs right after the callback that resolved the last promise
InitThen ==
  /\ allState = "fulfilled"
  /\ LET d == DrawFrame(0, canvas, pic, opacity)
     IN  pic' = d.pic
  /\ opacity' = OpacityOne
  /\ scrollBound' = TRUE
  /\ rafPending' = rafPending + 1
  /\ initSteps' = << "drawFrame", "opacity", "addScrollListener",
                     "requestAnimationFrame" >>
  /\ thenRuns' = thenRuns + 1
  /\ allState' = "done"
  /\ UNCHANGED << images, loaded, currentFrame, targetFrame, resolved, canvas,
                  heroVisible, missing, needsRender, scrollsSince >>

\* ----------------------------------------------------------------- resize
\* lines 32-40: the resize handler, the window now being vp
Resize(vp) ==
  /\ allState # "fulfilled"
  /\ canvas' = SizedCanvas(vp)
  /\ LET index == FloorIndex(currentFrame)
         d == IF HasImage(index)
                THEN DrawFrame(index, canvas', Blank, opacity)
                ELSE [pic |-> Blank, opacity |-> opacity, ops |-> << >>]
     IN  /\ pic' = d.pic
         /\ opacity' = d.opacity
  /\ UNCHANGED << images, loaded, currentFrame, targetFrame, resolved,
                  allState, thenRuns, initSteps, scrollBound, rafPending,
                  heroVisible, missing, needsRender, scrollsSince >>

\* ----------------------------------------------------------------- scroll
\* lines 58-60: scrollFraction for scrollTop = y and
\* scrollHeight - innerHeight = m
ScrollFraction(y, m) == JSMax(0, JSMin(Scale, JSDiv(y, m)))

\* the mapping with Math.floor applied to the product
ScrollTargetFloored(y, m) ==
  LET p == JSTimes(ScrollFraction(y, m), TotalFrames)
  IN  JSMin((TotalFrames - 1) * Scale,
            IF IsNum(p) THEN Num((p.v \div Scale) * Scale) ELSE p)

\* line 61: the value onScroll assigns to targetFrame
ScrollTarget(y, m) ==
  JSMin((TotalFrames - 1) * Scale,
        JSTimes(ScrollFraction(y, m), TotalFrames))

\* onScroll registered by the constructor, not by bindScroll
ScrollBoundEarly(y, m) ==
  /\ allState # "fulfilled"
  /\ targetFrame' = ScrollTarget(y, m)
  /\ UNCHANGED << images, loaded, currentFrame, resolved, allState, thenRuns,
                  initSteps, scrollBound, rafPending, canvas, pic, opacity,
                  heroVisible, missing, needsRender, scrollsSince >>

\* an onScroll that also draws the frame it selected
ScrollDraws(y, m) ==
  /\ allState # "fulfilled"
  /\ targetFrame' = IF scrollBound THEN ScrollTarget(y, m) ELSE targetFrame
  /\ LET d == DrawFrame(FloorIndex(targetFrame'), canvas, pic, opacity)
     IN  /\ pic' = d.pic
         /\ opacity' = d.opacity
  /\ UNCHANGED << images, loaded, currentFrame, resolved, allState, thenRuns,
                  initSteps, scrollBound, rafPending, canvas, heroVisible,
                  missing, needsRender, scrollsSince >>

\* a scroll event of the window; onScroll (lines 57-62) runs once line 64
\* has registered it
Scroll(y, m) ==
  /\ allState # "fulfilled"
  /\ targetFrame' = IF scrollBound THEN ScrollTarget(y, m) ELSE targetFrame
  /\ UNCHANGED << images, loaded, currentFrame, resolved, allState, thenRuns,
                  initSteps, scrollBound, rafPending, canvas, pic, opacity,
                  heroVisible, missing, needsRender, scrollsSince >>

\* ------------------------------------------------------------ render loop
\* the update with the difference taken the wrong way round
SmoothAway(c, t) ==
  IF IsNum(c) /\ IsNum(t)
    THEN Num(c.v + RoundDiv((c.v - t.v) * EaseNum, EaseDen))
    ELSE NaN

\* line 68: currentFrame += (targetFrame - currentFrame) * ease
Smooth(c, t) ==
  IF IsNum(c) /\ IsNum(t)
    THEN Num(c.v + RoundDiv((t.v - c.v) * EaseNum, EaseDen))
    ELSE NaN

\* the class toggled with the condition instead of only added
CrossfadeToggles(c, visible) == JSGeq(c, TotalFrames - 2)

\* lines 117-121: crossfadeIfEnding
CrossfadeIfEnding(c, visible) == visible \/ JSGeq(c, TotalFrames - 2)

\* a loop that requests the next frame only while it is still moving
TickBacksOff ==
  /\ rafPending > 0
  /\ currentFrame' = Smooth(currentFrame, targetFrame)
  /\ LET d == DrawFrame(FloorIndex(currentFrame'), canvas, pic, opacity)
     IN  /\ pic' = d.pic
         /\ opacity' = d.opacity
  /\ heroVisible' = CrossfadeIfEnding(currentFrame', heroVisible)
  /\ rafPending' = (rafPending - 1)
                     + (IF currentFrame' = currentFrame THEN 0 ELSE 1)
  /\ UNCHANGED << images, loaded, targetFrame, resolved, allState, thenRuns,
                  initSteps, scrollBound, canvas, missing,
                  needsRender, scrollsSince >>

\* lines 66-74: one animation frame of loop
Tick ==
  /\ rafPending > 0
  /\ currentFrame' = Smooth(currentFrame, targetFrame)
  /\ LET d == DrawFrame(FloorIndex(currentFrame'), canvas, pic, opacity)
     IN  /\ pic' = d.pic
         /\ opacity' = d.opacity
  /\ heroVisible' = CrossfadeIfEnding(currentFrame', heroVisible)
  /\ rafPending' = (rafPending - 1) + 1
  /\ UNCHANGED << images, loaded, targetFrame, resolved, allState, thenRuns,
                  initSteps, scrollBound, canvas, missing,
                  needsRender, scrollsSince >>

\* ------------------------------------------------------------------- Next
Next ==
  \/ \E i \in Frames : OnLoad(i)
  \/ \E i \in Frames : OnError(i)
  \/ InitThen
  \/ \E vp \in Viewports : Resize(vp)
  \/ \E y \in ScrollTops, m \in MaxScrollTops : Scroll(y, m)
  \/ Tick

Spec == Init /\ [][Next]_vars

\* every issued fetch fires its load or its error callback, the queued
\* then-callback runs, and the browser keeps delivering animation frames
FairSpec ==
  /\ Spec
  /\ WF_vars(\E i \in Frames : OnLoad(i) \/ OnError(i))
  /\ WF_vars(InitThen)
  /\ WF_vars(Tick)

\* ------------------------------------------------- the throttled variant
\* src/unnamed/part_000.  Its constructor, init, resize, preloadFrames,
\* drawFrame and crossfadeIfEnding are those above (resize and drawFrame
\* take currentFrame, here always an integer index or NaN); it has no
\* targetFrame and no smoothing.

\* part_000 lines 86-87: frameIndex, with Math.floor
ScrollFrameIndex(y, m) ==
  LET p == JSTimes(ScrollFraction(y, m), TotalFrames)
  IN  JSMin((TotalFrames - 1) * Scale,
            IF IsNum(p) THEN Num((p.v \div Scale) * Scale) ELSE p)

\* an onScroll that selects the frame and forgets to ask for a render
ScrollTNoFlag(y, m) ==
  /\ allState # "fulfilled"
  /\ scrollsSince < MaxCoalesced
  /\ IF scrollBound
       THEN /\ currentFrame' = ScrollFrameIndex(y, m)
            /\ scrollsSince' = scrollsSince + 1
       ELSE UNCHANGED << currentFrame, scrollsSince >>
  /\ UNCHANGED << images, loaded, targetFrame, resolved, allState, thenRuns,
                  initSteps, scrollBound, rafPending, canvas, pic, opacity,
                  heroVisible, missing, needsRender >>

\* part_000 lines 83-90: onScroll, run for a scroll event once line 92 has
\* registered it
ScrollT(y, m) ==
  /\ allState # "fulfilled"
  /\ scrollsSince < MaxCoalesced
  /\ IF scrollBound
       THEN /\ currentFrame' = ScrollFrameIndex(y, m)
            /\ needsRender' = TRUE
            /\ scrollsSince' = scrollsSince + 1
       ELSE UNCHANGED << currentFrame, needsRender, scrollsSince >>
  /\ UNCHANGED << images, loaded, targetFrame, resolved, allState, thenRuns,
                  initSteps, scrollBound, rafPending, canvas, pic, opacity,
                  heroVisible, missing >>

\* part_000 lines 94-101: one animation frame of loop
TickT ==
  /\ rafPending > 0
  /\ LET d == IF needsRender
                THEN DrawFrame(FloorIndex(currentFrame), canvas, pic, opacity)
                ELSE [pic |-> pic, opacity |-> opacity, ops |-> << >>]
     IN  /\ pic' = d.pic
         /\ opacity' = d.opacity
  /\ heroVisible' = IF needsRender
                      THEN CrossfadeIfEnding(currentFrame, heroVisible)
                      ELSE heroVisible
  /\ needsRender' = FALSE
  /\ scrollsSince' = 0
  /\ rafPending' = (rafPending - 1) + 1
  /\ UNCHANGED << images, loaded, currentFrame, targetFrame, resolved,
                  allState, thenRuns, initSteps, scrollBound, canvas, missing >>

ThrottledNext ==
  \/ \E i \in Frames : OnLoad(i)
  \/ \E i \in Frames : OnError(i)
  \/ InitThen
  \/ \E vp \in Viewports : Resize(vp)
  \/ \E y \in ScrollTops, m \in MaxScrollTops : ScrollT(y, m)
  \/ TickT

ThrottledSpec == Init /\ [][ThrottledNext]_vars

\* as FairSpec: callbacks fire, the then-callback runs, frames keep coming
FairThrottledSpec ==
  /\ ThrottledSpec
  /\ WF_vars(\E i \in Frames : OnLoad(i) \/ OnError(i))
  /\ WF_vars(InitThen)
  /\ WF_vars(TickT)

\* ================================================================ claims
Pending == resolved # Frames
InitOrder ==
  << "drawFrame", "opacity", "addScrollListener", "requestAnimationFrame" >>

\* C1: the preload completes exactly once and only after every one of the
\* TotalFrames fetches has resolved, by load or by error; once they all have,
\* it completes whatever the mix of successes and failures; a fetch that is
\* still pending can always fire its callback, whatever became of the others.
C1_PreloadCompletesOnce ==
  /\ thenRuns <= 1
  /\ (allState # "pending") <=> (resolved = Frames)
  /\ (thenRuns = 1) <=> (allState = "done")
  /\ resolved = { i \in Frames : images[i] # "empty" }
  /\ \A i \in Frames \ resolved : ENABLED (OnLoad(i) \/ OnError(i))
C1_Witness ==
  /\ thenRuns = 1
  /\ missing # {}
  /\ missing # Frames
  /\ loaded = TotalFrames - Cardinality(missing)

\* C2: if every fetch fires its load or its error callback, the component
\* eventually is ready: drawFrame(0) attempted, opacity set to 1, scroll
\* listener bound, render loop started; also when every frame fails.
ReadyPoint ==
  /\ initSteps = InitOrder
  /\ opacity = OpacityOne
  /\ scrollBound
  /\ rafPending = 1
C2_EventuallyReady == <>ReadyPoint
C2_Witness == ReadyPoint /\ missing = Frames /\ loaded = 0 /\ pic = Blank

C4_NoRenderWhilePending == Pending => pic = Blank

Min2(a, b) == IF a < b THEN a ELSE b
Max2(a, b) == IF a > b THEN a ELSE b
Loaded(index) == index \in Frames /\ images[index] = "ok"

\* a step that can be a scroll event handled by onScroll: the listener is
\* bound and nothing but targetFrame changes
ScrollHandled ==
  scrollBound /\ UNCHANGED << currentFrame, canvas, pic, opacity, heroVisible >>
\* ScrollFraction and ScrollTarget tabulated over the scroll metrics
FractionOf ==
  [y \in ScrollTops |-> [m \in MaxScrollTops |-> ScrollFraction(y, m)]]
TargetOf ==
  [y \in ScrollTops |-> [m \in MaxScrollTops |-> ScrollTarget(y, m)]]

\* C5 (as amended): on every scroll event handled after binding whose scroll
\* fraction f is a number in [0,1], targetFrame = min(N-1, f * N), not
\* floored: a continuous value whose floor is clamp(floor(f * N), 0, N-1);
\* f = 0 gives 0, f = 1 gives N-1; for a scrollable document f * N is
\* scrollTop * N / maxScrollTop exactly; nothing of the previous state enters.
C5_ScrollMapsContinuously ==
  [][ \A y \in ScrollTops, m \in MaxScrollTops :
        (ScrollHandled /\ targetFrame' = TargetOf[y][m] /\ Scroll(y, m)
           /\ IsNum(FractionOf[y][m])) =>
          LET f == FractionOf[y][m].v
          IN  /\ 0 <= f /\ f <= Scale
              /\ IsNum(targetFrame')
              /\ targetFrame'.v = Min2((TotalFrames - 1) * Scale, f * TotalFrames)
              /\ FloorIndex(targetFrame') =
                   Max2(0, Min2(TotalFrames - 1, (f * TotalFrames) \div Scale))
              /\ (f = 0) => (targetFrame'.v = 0)
              /\ (f = Scale) => (targetFrame'.v = (TotalFrames - 1) * Scale)
              /\ (m > 0) =>
                   targetFrame'.v * m =
                     Min2((TotalFrames - 1) * Scale * m, y * TotalFrames * Scale)
    ]_vars
C5_Witness ==
  scrollBound /\ IsNum(targetFrame) /\ targetFrame.v % Scale # 0

\* C5 as stated: targetFrame = clamp(floor(scrollFraction * N), 0, N-1)
C5_ScrollMapsToFloor ==
  [][ \A y \in ScrollTops, m \in MaxScrollTops :
        (ScrollHandled /\ targetFrame' = TargetOf[y][m] /\ Scroll(y, m)
           /\ IsNum(FractionOf[y][m])) =>
          LET f == FractionOf[y][m].v
          IN  targetFrame' =
                Num(Scale * Max2(0, Min2(TotalFrames - 1,
                                         (f * TotalFrames) \div Scale)))
    ]_vars

\* C6: on a document that is not scrollable (maxScrollTop <= 0) a scroll
\* event yields targetFrame 0 for every scrollTop, and no NaN ever enters
\* targetFrame, currentFrame or the index passed to drawFrame.
C6_NonScrollableGuarded ==
  /\ [](IsNum(targetFrame) /\ IsNum(currentFrame))
  /\ [][ \A y \in ScrollTops, m \in MaxScrollTops :
           (ScrollHandled /\ m <= 0 /\ Scroll(y, m)) => targetFrame' = Num(0)
       ]_vars

\* C7: while targetFrame stays the same number, no step takes currentFrame
\* farther from targetFrame, past targetFrame, or back the way it came.
C7_SmoothingMonotone ==
  [][ (targetFrame' = targetFrame /\ IsNum(targetFrame) /\ IsNum(currentFrame)) =>
        LET t == targetFrame.v
            c == currentFrame.v
            d == currentFrame'.v
        IN  /\ IsNum(currentFrame')
            /\ Abs(t - d) <= Abs(t - c)
            /\ (c <= t) => (c <= d /\ d <= t)
            /\ (c >= t) => (c >= d /\ d >= t)
    ]_vars
C7_Witness ==
  /\ IsNum(targetFrame) /\ IsNum(currentFrame)
  /\ 0 < currentFrame.v /\ currentFrame.v < targetFrame.v
  /\ targetFrame.v - currentFrame.v < Scale

\* C8: drawFrame on an index whose slot holds no loaded image (empty, or a
\* failed image) changes neither the picture nor the opacity and issues no
\* command; a tick that calls it leaves the previous frame on the canvas.
C8_DrawUnloadedIsNoop ==
  /\ [](\A index \in Frames \cup {-1} :
          (~HasImage(index) \/ images[index] = "broken") =>
            DrawFrame(index, canvas, pic, opacity) =
              [pic |-> pic, opacity |-> opacity, ops |-> << >>])
  /\ [][ (Tick /\ ~Loaded(FloorIndex(currentFrame'))) =>
           UNCHANGED << pic, opacity >> ]_vars
C8_Witness ==
  /\ scrollBound
  /\ FloorIndex(currentFrame) = 1
  /\ images[1] = "broken"
  /\ pic.index = 0

\* C9 (as amended): the rectangle drawFrame draws into covers the canvas:
\* drawWidth >= canvas width and drawHeight >= canvas height, one of the two
\* with equality; the aspect ratio of the image is kept and the rectangle is
\* centred, so the image is cropped where the two ratios differ.
AspectKept == pic.w * FrameSize.h = pic.h * FrameSize.w
Centred ==
  /\ 2 * pic.x + pic.w = canvas.cssW * pic.den
  /\ 2 * pic.y + pic.h = canvas.cssH * pic.den
C9_PlacementCovers ==
  (pic.index # -1) =>
    /\ pic.w >= canvas.cssW * pic.den
    /\ pic.h >= canvas.cssH * pic.den
    /\ (pic.w = canvas.cssW * pic.den \/ pic.h = canvas.cssH * pic.den)
    /\ AspectKept
    /\ Centred
C9_Witness == pic.index # -1 /\ pic.h > canvas.cssH * pic.den /\ pic.y < 0

\* C9 as stated: the whole image is shown, undistorted and centred
C9_WholeImageVisible ==
  (pic.index # -1) =>
    /\ pic.w <= canvas.cssW * pic.den
    /\ pic.h <= canvas.cssH * pic.den
    /\ AspectKept
    /\ Centred

\* C10: for every index in [0, N-1] whose slot holds a loaded image,
\* drawFrame(index) sets the opacity to (N - index) / fadeThreshold clamped
\* to [0,1] when N - index <= fadeThreshold, and to 1 otherwise.
Ramp(index) ==
  IF TotalFrames - index <= fadeThreshold
    THEN Max2(0, Min2(fadeThreshold, TotalFrames - index))
    ELSE fadeThreshold
C10_OpacityRamp ==
  /\ [](\A index \in Frames :
          Loaded(index) =>
            DrawFrame(index, canvas, pic, opacity).opacity = Ramp(index))
  /\ [][ (Tick /\ Loaded(FloorIndex(currentFrame'))) =>
           (opacity' = Ramp(FloorIndex(currentFrame'))
            /\ pic'.index = FloorIndex(currentFrame')) ]_vars
C10_Witness ==
  /\ pic.index = TotalFrames - 4
  /\ 2 * opacity = fadeThreshold
  /\ FloorIndex(currentFrame) = TotalFrames - 4

\* C11: the hero's 'visible' state is set on a render tick exactly when
\* currentFrame >= N - 2 holds at that tick; once set, no later scroll, resize
\* or tick clears it, also after scrolling back to the top; before the first
\* such tick it is not set.
C11_VisibleOneShot ==
  /\ [][heroVisible => heroVisible']_vars
  /\ [][ (~heroVisible /\ heroVisible') =>
           (Tick /\ JSGeq(currentFrame', TotalFrames - 2)) ]_vars
  /\ [][ (currentFrame' # currentFrame
          /\ JSGeq(currentFrame', TotalFrames - 2)) => heroVisible' ]_vars
  /\ [](heroVisible => scrollBound)
C11_Witness ==
  heroVisible /\ FloorIndex(currentFrame) = 0 /\ targetFrame = Num(0)

\* C12: a resize recomputes the canvas sizes and re-renders the frame
\* floor(currentFrame) when that slot is loaded; after a resize the canvas
\* shows the frame that was visible before it, never a blank canvas.
C12_ResizeKeepsFrame ==
  [][ \A vp \in Viewports :
        (pic.index # -1 /\ IsNum(currentFrame)
         /\ canvas' = SizedCanvas(vp) /\ Resize(vp)) =>
          /\ pic'.index = pic.index
          /\ Loaded(FloorIndex(currentFrame)) =>
               pic'.index = FloorIndex(currentFrame)
    ]_vars

\* the commands the resize handler issues to the 2D context by drawFrame
ResizeCommands ==
  LET index == FloorIndex(currentFrame)
  IN  IF HasImage(index)
        THEN DrawFrame(index, canvas, Blank, opacity).ops
        ELSE << >>

\* C13 (as amended): the scroll handler changes only targetFrame and issues
\* no clear or draw command; the picture and the opacity change only in the
\* render loop, in the resize handler (which redraws floor(currentFrame)
\* when that slot is loaded) and in the initial draw of init.
C13_OnlyLoopResizeInitDraw ==
  /\ [][ (pic' # pic \/ opacity' # opacity) =>
           (Tick \/ InitThen \/ \E vp \in Viewports : Resize(vp)) ]_vars
  /\ [][ (targetFrame' # targetFrame) =>
           UNCHANGED << pic, opacity, canvas, currentFrame >> ]_vars
C13_Witness == Pending /\ pic.index = 0 /\ ResizeCommands # << >>

\* C13 as stated: neither the scroll nor the resize handler issues a clear
\* or draw command
C13_HandlersNeverDraw ==
  [][ (\E vp \in Viewports : canvas' = SizedCanvas(vp) /\ Resize(vp)) =>
        (ResizeCommands = << >> /\ pic'.index = -1) ]_vars

\* C14: in every reachable state 0 <= targetFrame <= N-1 and
\* 0 <= currentFrame <= N-1, and the index floor(currentFrame) passed to
\* drawFrame lies in [0, N-1].
InFrameRange(x) ==
  IsNum(x) /\ 0 <= x.v /\ x.v <= (TotalFrames - 1) * Scale
C14_FramesInRange ==
  /\ InFrameRange(targetFrame)
  /\ InFrameRange(currentFrame)
  /\ FloorIndex(currentFrame) \in Frames

\* C15: once started after the preload the render loop never stops: every
\* tick advances the smoothing, calls drawFrame(floor(currentFrame)) and
\* requests exactly one next tick, whether or not targetFrame changed or the
\* slot is loaded; a tick is always pending and never more than one.
C15_LoopNeverStops ==
  /\ [](rafPending <= 1)
  /\ []((allState = "done") <=> (rafPending = 1))
  /\ [](allState = "done" => ENABLED Tick)
  /\ [][ (rafPending = 1 /\ currentFrame' # currentFrame) =>
           /\ rafPending' = 1
           /\ currentFrame' = Smooth(currentFrame, targetFrame)
           /\ LET d == DrawFrame(FloorIndex(currentFrame'), canvas, pic, opacity)
              IN  pic' = d.pic /\ opacity' = d.opacity
       ]_vars
C15_Witness ==
  /\ rafPending = 1
  /\ IsNum(currentFrame) /\ currentFrame.v > 0
  /\ Smooth(currentFrame, targetFrame) = currentFrame
  /\ ~Loaded(FloorIndex(currentFrame))

\* C16: when scroll events stop, continued ticks bring floor(currentFrame)
\* to floor(targetFrame) and keep it there; after scrolling from the top to
\* the bottom the last frame N-1 is the one drawn. Stated on the state in
\* which the smoothing has come to rest: a further tick leaves currentFrame
\* as it is, so the two indices must agree there.
AtRest ==
  /\ scrollBound
  /\ IsNum(currentFrame) /\ IsNum(targetFrame)
  /\ Smooth(currentFrame, targetFrame) = currentFrame
C16_CatchUpReachesTarget ==
  AtRest => FloorIndex(currentFrame) = FloorIndex(targetFrame)

\* the cache and the count that the set res of settled fetches determines
CacheOf(res) ==
  [i \in Frames |-> IF i \notin res THEN "empty"
                    ELSE IF i \in missing THEN "broken" ELSE "ok"]
LoadedOf(res) == Cardinality(res \ missing)

\* C17: all N fetches are issued before any is handled, and the outcome does
\* not depend on the order of completion: the cache and the loaded count are
\* a function of the set of fetches settled so far, so every interleaving
\* ends with slot i renderable iff fetch i succeeded, loaded = number of
\* successes, and one completion.
C17_OrderIndependent ==
  /\ images = CacheOf(resolved)
  /\ loaded = LoadedOf(resolved)
  /\ (resolved = {}) =>
       \A i \in Frames : ENABLED (OnLoad(i) \/ OnError(i))
  /\ (allState = "done") =>
       /\ resolved = Frames
       /\ \A i \in Frames : (Loaded(i) <=> i \notin missing)
       /\ loaded = TotalFrames - Cardinality(missing)
       /\ thenRuns = 1
C17_Witness ==
  /\ allState = "done"
  /\ missing = {1}
  /\ loaded = TotalFrames - 1

\* C18: once the preload has completed the cache never changes: no scroll,
\* resize, tick or late callback writes a slot of images or changes loaded;
\* each slot is written exactly once overall.
C18_CacheImmutable ==
  /\ [][ allState # "pending" => UNCHANGED << images, loaded >> ]_vars
  /\ [][ \A i \in Frames :
           images[i] # "empty" => images'[i] = images[i] ]_vars
  /\ [](allState # "pending" => \A i \in Frames : images[i] # "empty")
  /\ [](allState # "pending" =>
          \A i \in Frames : ~ENABLED (OnLoad(i) \/ OnError(i)))
C18_Witness ==
  /\ allState = "done"
  /\ heroVisible
  /\ missing = {0, 1}
  /\ pic.index = -1

\* C20: with N > fadeThreshold, in every state after the ready point in
\* which a frame has been drawn, the opacity is the fade-ramp value of the
\* frame drawn last; it lies in [1/8, 1] and is never out of step with the
\* picture, also when slots failed: after the ready point the opacity is
\* assigned only together with a successful draw.
C20_OpacityInStep ==
  /\ [](TotalFrames > fadeThreshold)
  /\ []((scrollBound /\ pic.index # -1) => opacity = Ramp(pic.index))
  /\ [](scrollBound => opacity \in 1 .. fadeThreshold)
  /\ [][ (scrollBound /\ opacity' # opacity) =>
           (pic'.index # -1 /\ opacity' = Ramp(pic'.index)) ]_vars
  /\ [][ (scrollBound /\ pic'.index # pic.index /\ pic'.index # -1) =>
           opacity' = Ramp(pic'.index) ]_vars
C20_Witness ==
  /\ scrollBound
  /\ missing = {1}
  /\ pic.index = TotalFrames - 2
  /\ opacity = 2

\* C19: in the throttled variant the draws are coalesced per tick: however
\* many scroll events were handled since the last tick, the next tick calls
\* drawFrame once, with the index the latest event selected; a tick with no
\* scroll event since the previous one draws nothing; every handled scroll
\* event is followed by a tick that draws the frame then selected.
DrawPending == needsRender
C19_DrawsCoalesced ==
  /\ [](needsRender <=> scrollsSince > 0)
  /\ []((scrollBound /\ ~needsRender /\ Loaded(FloorIndex(currentFrame)))
          => pic.index = FloorIndex(currentFrame))
  /\ [][ (scrollsSince' > scrollsSince) =>
           /\ needsRender'
           /\ \E y \in ScrollTops, m \in MaxScrollTops :
                currentFrame' = ScrollFrameIndex(y, m)
           /\ UNCHANGED << pic, opacity, heroVisible, canvas >> ]_vars
  /\ [][ (needsRender /\ ~needsRender') =>
           LET d == DrawFrame(FloorIndex(currentFrame), canvas, pic, opacity)
           IN  /\ pic' = d.pic
               /\ opacity' = d.opacity
               /\ currentFrame' = currentFrame ]_vars
  /\ [][ (~needsRender /\ TickT) =>
           UNCHANGED << pic, opacity, heroVisible >> ]_vars
  /\ (DrawPending ~> ~DrawPending)
C19_Witness ==
  /\ scrollsSince = 0
  /\ ~needsRender
  /\ pic.index = TotalFrames - 1
  /\ heroVisible

====
